---- MODULE Spec2Model ----
(***************************************************************************)
(* Model of src/model/deleted-items.ts: the in-memory mirror (state.entries *)
(* and _entry_cache) of the persistent log of deleted items, its hydration *)
(* loop, its onSet/onDelete listeners and the add/drop write-through calls. *)
(***************************************************************************)
EXTENDS Integers, Sequences, FiniteSets, TLC

\* ------------------------------------------------------------------ bounds
MaxTime == 2        \* the clock (new Date()) takes the values 1..MaxTime
MaxCalls == 1       \* add/drop calls of the local caller
MaxRand == 1        \* makeRandomString(4) takes the values 1..MaxRand
MaxSuffix == 2      \* the same, where add() is called more than once
MaxAdds == 2        \* add calls, where add() is called more than once
MaxInit == 2        \* records in the store when the Model is constructed
MaxCommits == 2     \* store mutations committed after construction
MaxQueue == 2       \* notifications committed but not yet delivered
ChunkSize == 2      \* records one read of the store's listing returns

\* ------------------------------------------------------------- data model
NoVal == [absent |-> TRUE]

Pending == [promise |-> "pending"]

Ok == [promise |-> "fulfilled"]

\* A key is `${deleted_at}-${makeRandomString(4)}`: an ISO timestamp, then a
\* random suffix; strings of this shape compare field by field.
Keys == (1..MaxTime) \X (1..MaxRand)

KeyLess(a, b) == a[1] < b[1] \/ (a[1] = b[1] /\ a[2] < b[2])

\* Date.prototype.toISOString and new Date(string): the persisted form of a
\* timestamp is a string, the in-memory form a Date (milliseconds).
toISOString(t) == [iso |-> t]

NewDate(s) == s.iso

DeletedBookmark(t) == [title |-> t, url |-> "u"]

DeletedFolder(t) == [title |-> t, children |-> <<DeletedBookmark("saved-1")>>]

Items == {DeletedBookmark("A"), DeletedFolder("saved-1")}

SourceValue(t, i) == [deleted_at |-> toISOString(t), item |-> i]

\* The values writers in other processes store.
SourceValues ==
    {SourceValue(1, DeletedBookmark("A")), SourceValue(2, DeletedFolder("saved-1"))}

Entry(k, v) == [key |-> k, value |-> v]

Errors == {"QuotaExceeded", "Closed"}

Err(e) == [error |-> e]

\* friendlyFolderName of ../stash: folders named by the stash's own naming
\* scheme are shown with a readable name, every other title as it is.
friendlyFolderName(title) == IF title = "saved-1" THEN "Saved 1" ELSE title

src2state(e) ==
    [key |-> e.key,
     deleted_at |-> NewDate(e.value.deleted_at),
     item |-> IF "children" \in DOMAIN e.value.item
              THEN [title |-> friendlyFolderName(e.value.item.title),
                    children |-> e.value.item.children]
              ELSE e.value.item]

\* ------------------------------------------------------------------ state
VARIABLES
    store,      \* the KeyValueStore: key -> SourceValue, or NoVal
    notifq,     \* onSet/onDelete events committed and not yet delivered
    heap,       \* the Deletion objects: object id -> fields
    entries,    \* state.entries: sequence of object ids
    cache,      \* _entry_cache: key -> object id, or 0
    ready,      \* state.ready
    hpc,        \* the hydration block: "listing", "done" or "failed"
    cursor,     \* kvs.list(): last key read, or <<0, 0>>
    buf,        \* kvs.list(): records read and not yet yielded
    now,        \* the clock: the time of the latest new Date()
    wpc,        \* the local caller: "idle", "add" or "drop"
    wentry,     \* add's entry / drop's argument while the call is in progress
    kres,       \* outcome of the pending kvs.set / kvs.delete promise
    wres,       \* what the last add/drop call returned or threw
    commits,    \* store mutations committed so far
    calls,      \* add/drop calls made so far
    resets      \* history: every commit so far set a key the store had

vars == <<store, notifq, heap, entries, cache, ready, hpc, cursor, buf, now,
          wpc, wentry, kres, wres, commits, calls, resets>>

mem == <<heap, entries, cache>>

\* --------------------------------------------------------------- helpers
Range(s) == {s[i] : i \in 1..Len(s)}

RECURSIVE SeqFilter(_, _, _)
\* Array.prototype.filter with the predicate "key not in kset".
SeqFilter(h, s, kset) ==
    IF s = <<>> THEN <<>>
    ELSE IF h[Head(s)].key \in kset THEN SeqFilter(h, Tail(s), kset)
         ELSE <<Head(s)>> \o SeqFilter(h, Tail(s), kset)

NewId(h) == CHOOSE i \in 1..(Cardinality(DOMAIN h) + 1) : i \notin DOMAIN h

\* Objects no longer referenced by entries or the cache are collected.
Collect(h, es, c) ==
    [i \in (Range(es) \cup ({c[k] : k \in DOMAIN c} \ {0})) |-> h[i]]

\* ------------------------------------------------- the store's listing
NoKey == <<0, 0>>

KeysAfter(st, cur) == {k \in DOMAIN st : st[k] # NoVal /\ KeyLess(cur, k)}

MinKey(ks) == CHOOSE k \in ks : \A j \in ks : j = k \/ KeyLess(k, j)

RECURSIVE ListChunk(_, _, _)
\* One read of the listing: up to n records after cur, in key order.
ListChunk(st, cur, n) ==
    IF n = 0 \/ KeysAfter(st, cur) = {} THEN <<>>
    ELSE LET k == MinKey(KeysAfter(st, cur))
         IN  <<Entry(k, st[k])>> \o ListChunk(st, k, n - 1)

\* ------------------------------------------------------------ listeners
Mem(h, es, c) == [heap |-> h, entries |-> es, cache |-> c]

\* Variant: a record for an absent key is put at the front of entries.
OnSetRecord_Unshift(m, r) ==
    LET cached == m.cache[r.key]
    IN  IF cached # 0
        THEN Mem([m.heap EXCEPT ![cached].deleted_at = NewDate(r.value.deleted_at),
                                ![cached].item = r.value.item],
                 m.entries, m.cache)
        ELSE LET id == NewId(m.heap)
             IN  Mem(m.heap @@ (id :> src2state(Entry(r.key, r.value))),
                     <<id>> \o m.entries,
                     [m.cache EXCEPT ![r.key] = id])

\* Variant: a record for a cached key replaces the Deletion by a new object.
OnSetRecord_Replace(m, r) ==
    LET cached == m.cache[r.key]
        id == NewId(m.heap)
    IN  IF cached # 0
        THEN Mem(m.heap @@ (id :> src2state(Entry(r.key, r.value))),
                 [i \in 1..Len(m.entries) |->
                     IF m.entries[i] = cached THEN id ELSE m.entries[i]],
                 [m.cache EXCEPT ![r.key] = id])
        ELSE Mem(m.heap @@ (id :> src2state(Entry(r.key, r.value))),
                 Append(m.entries, id),
                 [m.cache EXCEPT ![r.key] = id])

\* The body of the onSet listener's loop for one record.
OnSetRecord(m, r) ==
    LET cached == m.cache[r.key]
    IN  IF cached # 0
        THEN Mem([m.heap EXCEPT ![cached].deleted_at = NewDate(r.value.deleted_at),
                                ![cached].item = r.value.item],
                 m.entries, m.cache)
        ELSE LET id == NewId(m.heap)
             IN  Mem(m.heap @@ (id :> src2state(Entry(r.key, r.value))),
                     Append(m.entries, id),
                     [m.cache EXCEPT ![r.key] = id])

RECURSIVE OnSet_Reverse(_, _)
\* Variant: the records of the batch are applied last to first.
OnSet_Reverse(m, records) ==
    IF records = <<>> THEN m
    ELSE OnSetRecord(OnSet_Reverse(m, Tail(records)), Head(records))

RECURSIVE OnSet(_, _)
\* kvs.onSet listener: the records of the batch, in array order.
OnSet(m, records) ==
    IF records = <<>> THEN m
    ELSE OnSet(OnSetRecord(m, Head(records)), Tail(records))

\* Variant: the listener keeps the elements it should remove.
OnDelete_Inverted(m, keys) ==
    LET c  == [k \in Keys |-> IF k \in Range(keys) THEN 0 ELSE m.cache[k]]
        es == SeqFilter(m.heap, m.entries, Keys \ Range(keys))
    IN  Mem(Collect(m.heap, es, c), es, c)

\* Variant: the listener splices at the index of the key, which is -1 for
\* a key that is not in entries, and so removes the last element.
OnDelete_Splice(m, keys) ==
    LET c  == [k \in Keys |-> IF k \in Range(keys) THEN 0 ELSE m.cache[k]]
        found == \E i \in 1..Len(m.entries) : m.heap[m.entries[i]].key \in Range(keys)
        es == IF found \/ m.entries = <<>>
              THEN SeqFilter(m.heap, m.entries, Range(keys))
              ELSE SubSeq(m.entries, 1, Len(m.entries) - 1)
    IN  Mem(Collect(m.heap, es, c), es, c)

\* Variant: the listener filters entries and leaves the cache alone.
OnDelete_KeepsCache(m, keys) ==
    LET es == SeqFilter(m.heap, m.entries, Range(keys))
    IN  Mem(Collect(m.heap, es, m.cache), es, m.cache)

\* kvs.onDelete listener.
OnDelete(m, keys) ==
    LET c  == [k \in Keys |-> IF k \in Range(keys) THEN 0 ELSE m.cache[k]]
        es == SeqFilter(m.heap, m.entries, Range(keys))
    IN  Mem(Collect(m.heap, es, c), es, c)

\* Variant: the loop puts the record at the front of entries.
HydrateInsert_Unshift(m, record) ==
    LET id == NewId(m.heap)
    IN  Mem(m.heap @@ (id :> src2state(record)),
            <<id>> \o m.entries,
            [m.cache EXCEPT ![record.key] = id])

\* The body of the hydration loop for one record of the listing.
HydrateInsert(m, record) ==
    LET id == NewId(m.heap)
    IN  Mem(m.heap @@ (id :> src2state(record)),
            Append(m.entries, id),
            [m.cache EXCEPT ![record.key] = id])

\* ----------------------------------------------------------------- Init
InitStores ==
    {st \in [Keys -> SourceValues \cup {NoVal}] :
        Cardinality({k \in Keys : st[k] # NoVal}) <= MaxInit}

\* Batches of records and of keys other processes write in one call.
SetBatches ==
    {<<Entry(k, v)>> : k \in Keys, v \in SourceValues}
    \cup {<<Entry(k, v1), Entry(k, v2)>> : k \in Keys, v1 \in SourceValues, v2 \in SourceValues}

DeleteBatches ==
    {<<k>> : k \in Keys}
    \cup {<<p[1], p[2]>> : p \in {q \in Keys \X Keys : KeyLess(q[1], q[2])}}

Init ==
    /\ store \in InitStores
    /\ notifq = <<>>
    /\ heap = <<>>
    /\ entries = <<>>
    /\ cache = [k \in Keys |-> 0]
    /\ ready = FALSE
    /\ hpc = "listing"
    /\ cursor = NoKey
    /\ buf = <<>>
    /\ now = 1
    /\ wpc = "idle"
    /\ wentry = NoVal
    /\ kres = Ok
    /\ wres = NoVal
    /\ commits = 0
    /\ calls = 0
    /\ resets = TRUE

\* ------------------------------------------------------------- hydration
\* kvs.list() reads the next records of the listing from the store.
ListRead(n) ==
    /\ hpc = "listing"
    /\ buf = <<>>
    /\ KeysAfter(store, cursor) # {}
    /\ buf' = ListChunk(store, cursor, n)
    /\ cursor' = buf'[Len(buf')].key
    /\ UNCHANGED <<store, notifq, heap, entries, cache, ready, hpc, now,
                   wpc, wentry, kres, wres, commits, calls, resets>>

\* Variant: ready is set inside the loop instead of after it.
HydrateRecord_ReadyEarly ==
    /\ hpc = "listing"
    /\ buf # <<>>
    /\ LET m == HydrateInsert(Mem(heap, entries, cache), Head(buf))
       IN  /\ heap' = m.heap
           /\ entries' = m.entries
           /\ cache' = m.cache
    /\ buf' = Tail(buf)
    /\ ready' = TRUE
    /\ UNCHANGED <<store, notifq, hpc, cursor, now,
                   wpc, wentry, kres, wres, commits, calls, resets>>

\* One iteration of the for-await loop.
HydrateRecord ==
    /\ hpc = "listing"
    /\ buf # <<>>
    /\ LET m == HydrateInsert(Mem(heap, entries, cache), Head(buf))
       IN  /\ heap' = m.heap
           /\ entries' = m.entries
           /\ cache' = m.cache
    /\ buf' = Tail(buf)
    /\ UNCHANGED <<store, notifq, ready, hpc, cursor, now,
                   wpc, wentry, kres, wres, commits, calls, resets>>

\* Variant: the loop ends and ready is left as it is.
HydrateDone_NoFlag ==
    /\ hpc = "listing"
    /\ buf = <<>>
    /\ KeysAfter(store, cursor) = {}
    /\ hpc' = "done"
    /\ UNCHANGED <<store, notifq, heap, entries, cache, ready, cursor, buf, now,
                   wpc, wentry, kres, wres, commits, calls, resets>>

\* The listing is exhausted: the loop ends and ready is set.
HydrateDone ==
    /\ hpc = "listing"
    /\ buf = <<>>
    /\ KeysAfter(store, cursor) = {}
    /\ ready' = TRUE
    /\ hpc' = "done"
    /\ UNCHANGED <<store, notifq, heap, entries, cache, cursor, buf, now,
                   wpc, wentry, kres, wres, commits, calls, resets>>

\* Variant: ready is set in a finally clause, error or not.
HydrateFail_Finally ==
    /\ hpc = "listing"
    /\ hpc' = "failed"
    /\ buf' = <<>>
    /\ ready' = TRUE
    /\ UNCHANGED <<store, notifq, heap, entries, cache, cursor, now,
                   wpc, wentry, kres, wres, commits, calls, resets>>

\* kvs.list() throws: the async block rejects and .catch logs the error.
HydrateFail ==
    /\ hpc = "listing"
    /\ hpc' = "failed"
    /\ buf' = <<>>
    /\ UNCHANGED <<store, notifq, heap, entries, cache, ready, cursor, now,
                   wpc, wentry, kres, wres, commits, calls, resets>>

\* --------------------------------------------------- notification delivery
DeliverSet ==
    /\ notifq # <<>>
    /\ Head(notifq).type = "set"
    /\ LET m == OnSet(Mem(heap, entries, cache), Head(notifq).records)
       IN  /\ heap' = m.heap
           /\ entries' = m.entries
           /\ cache' = m.cache
    /\ notifq' = Tail(notifq)
    /\ UNCHANGED <<store, ready, hpc, cursor, buf, now,
                   wpc, wentry, kres, wres, commits, calls, resets>>

DeliverDelete ==
    /\ notifq # <<>>
    /\ Head(notifq).type = "delete"
    /\ LET m == OnDelete(Mem(heap, entries, cache), Head(notifq).keys)
       IN  /\ heap' = m.heap
           /\ entries' = m.entries
           /\ cache' = m.cache
    /\ notifq' = Tail(notifq)
    /\ UNCHANGED <<store, ready, hpc, cursor, buf, now,
                   wpc, wentry, kres, wres, commits, calls, resets>>

\* ------------------------------------------------------------- the store
SetNotification(records) == [type |-> "set", records |-> records]

DeleteNotification(keys) == [type |-> "delete", keys |-> keys]

RECURSIVE StoreSet(_, _)
StoreSet(st, records) ==
    IF records = <<>> THEN st
    ELSE StoreSet([st EXCEPT ![Head(records).key] = Head(records).value],
                  Tail(records))

StoreDelete(st, keys) == [k \in Keys |-> IF k \in Range(keys) THEN NoVal ELSE st[k]]

CanCommit == commits < MaxCommits /\ Len(notifq) < MaxQueue

\* Another process sets records: the store commits and notifies.
RemoteSet(records) ==
    /\ CanCommit
    /\ store' = StoreSet(store, records)
    /\ notifq' = Append(notifq, SetNotification(records))
    /\ commits' = commits + 1
    /\ resets' = (resets /\ \A r \in Range(records) : store[r.key] # NoVal)
    /\ UNCHANGED <<heap, entries, cache, ready, hpc, cursor, buf, now,
                   wpc, wentry, kres, wres, calls>>

\* Another process deletes records.
RemoteDelete(keys) ==
    /\ CanCommit
    /\ store' = StoreDelete(store, keys)
    /\ notifq' = Append(notifq, DeleteNotification(keys))
    /\ commits' = commits + 1
    /\ resets' = FALSE
    /\ UNCHANGED <<heap, entries, cache, ready, hpc, cursor, buf, now,
                   wpc, wentry, kres, wres, calls>>

\* The store commits the set of a pending add().
KvsSet ==
    /\ wpc = "add"
    /\ kres = Pending
    /\ CanCommit
    /\ store' = StoreSet(store, <<wentry>>)
    /\ notifq' = Append(notifq, SetNotification(<<wentry>>))
    /\ commits' = commits + 1
    /\ kres' = Ok
    /\ resets' = (resets /\ store[wentry.key] # NoVal)
    /\ UNCHANGED <<heap, entries, cache, ready, hpc, cursor, buf, now,
                   wpc, wentry, wres, calls>>

\* The store commits the delete of a pending drop().
KvsDelete ==
    /\ wpc = "drop"
    /\ kres = Pending
    /\ CanCommit
    /\ store' = StoreDelete(store, <<wentry.key>>)
    /\ notifq' = Append(notifq, DeleteNotification(<<wentry.key>>))
    /\ commits' = commits + 1
    /\ kres' = Ok
    /\ resets' = FALSE
    /\ UNCHANGED <<heap, entries, cache, ready, hpc, cursor, buf, now,
                   wpc, wentry, wres, calls>>

\* The store's set or delete raises an error: nothing is committed.
KvsReject(e) ==
    /\ wpc \in {"add", "drop"}
    /\ kres = Pending
    /\ kres' = Err(e)
    /\ UNCHANGED <<store, notifq, heap, entries, cache, ready, hpc, cursor,
                   buf, now, wpc, wentry, wres, commits, calls, resets>>

\* ---------------------------------------------------------- add and drop
\* Variant: add() inserts the new Deletion itself before it awaits the store.
AddCall_Eager(item, t, rand) ==
    /\ wpc = "idle"
    /\ calls < MaxCalls
    /\ t >= now
    /\ now' = t
    /\ LET deleted_at == toISOString(t)
           key == <<t, rand>>
           entry == Entry(key, [deleted_at |-> deleted_at, item |-> item])
           m == OnSetRecord(Mem(heap, entries, cache), entry)
       IN  /\ wentry' = entry
           /\ heap' = m.heap
           /\ entries' = m.entries
           /\ cache' = m.cache
    /\ wpc' = "add"
    /\ kres' = Pending
    /\ wres' = NoVal
    /\ calls' = calls + 1
    /\ UNCHANGED <<store, notifq, ready, hpc, cursor, buf, commits, resets>>

\* add(item) up to its await: the key, the entry and the call of kvs.set.
AddStart(item, t, rand) ==
    /\ wpc = "idle"
    /\ t >= now
    /\ now' = t
    /\ LET deleted_at == toISOString(t)
           key == <<t, rand>>
       IN  wentry' = Entry(key, [deleted_at |-> deleted_at, item |-> item])
    /\ wpc' = "add"
    /\ kres' = Pending
    /\ wres' = NoVal
    /\ calls' = calls + 1
    /\ UNCHANGED <<store, notifq, heap, entries, cache, ready, hpc, cursor,
                   buf, commits, resets>>

\* A call of add(item), while the bound on calls allows one.
AddCall(item, t, rand) ==
    /\ calls < MaxCalls
    /\ AddStart(item, t, rand)

\* Variant: add() catches the store's error and returns the entry anyway.
AddReturn_Swallow ==
    /\ wpc = "add"
    /\ kres # Pending
    /\ wres' = wentry
    /\ wpc' = "idle"
    /\ wentry' = NoVal
    /\ kres' = Ok
    /\ UNCHANGED <<store, notifq, heap, entries, cache, ready, hpc, cursor,
                   buf, now, commits, calls, resets>>

\* add(item) after its await: returns the entry, or throws the store's error.
AddReturn ==
    /\ wpc = "add"
    /\ kres # Pending
    /\ wres' = IF kres = Ok THEN wentry ELSE kres
    /\ wpc' = "idle"
    /\ wentry' = NoVal
    /\ kres' = Ok
    /\ UNCHANGED <<store, notifq, heap, entries, cache, ready, hpc, cursor,
                   buf, now, commits, calls, resets>>

\* drop(key): the call of kvs.delete, whose promise is returned as it is.
DropCall(key) ==
    /\ wpc = "idle"
    /\ calls < MaxCalls
    /\ wentry' = [key |-> key]
    /\ wpc' = "drop"
    /\ kres' = Pending
    /\ wres' = NoVal
    /\ calls' = calls + 1
    /\ UNCHANGED <<store, notifq, heap, entries, cache, ready, hpc, cursor,
                   buf, now, commits, resets>>

DropReturn ==
    /\ wpc = "drop"
    /\ kres # Pending
    /\ wres' = kres
    /\ wpc' = "idle"
    /\ wentry' = NoVal
    /\ kres' = Ok
    /\ UNCHANGED <<store, notifq, heap, entries, cache, ready, hpc, cursor,
                   buf, now, commits, calls, resets>>

Next ==
    \/ \E n \in 1..ChunkSize : ListRead(n)
    \/ HydrateRecord
    \/ HydrateDone
    \/ HydrateFail
    \/ DeliverSet
    \/ DeliverDelete
    \/ \E records \in SetBatches : RemoteSet(records)
    \/ \E keys \in DeleteBatches : RemoteDelete(keys)
    \/ KvsSet
    \/ KvsDelete
    \/ \E e \in Errors : KvsReject(e)
    \/ \E item \in Items, t \in 1..MaxTime, rand \in 1..MaxRand : AddCall(item, t, rand)
    \/ AddReturn
    \/ \E key \in Keys : DropCall(key)
    \/ DropReturn

Spec == Init /\ [][Next]_vars

\* The event loop runs a continuation that is ready, and the store answers
\* a read of the listing: hydration's own steps are weakly fair. Nothing
\* obliges the store to fail, other processes to write or the caller to call.
Fairness ==
    /\ WF_vars(\E n \in 1..ChunkSize : ListRead(n))
    /\ WF_vars(HydrateRecord)
    /\ WF_vars(HydrateDone)

SpecFair == Spec /\ Fairness

\* ------------------------------------------- add() called more than once
\* One process that calls add() up to MaxAdds times on a store that starts
\* empty; the random suffix of a key is one of MaxSuffix strings.
AddKeys == (1..MaxTime) \X (1..MaxSuffix)

InitAdd ==
    /\ store = [k \in AddKeys |-> NoVal]
    /\ notifq = <<>>
    /\ heap = <<>>
    /\ entries = <<>>
    /\ cache = [k \in AddKeys |-> 0]
    /\ ready = FALSE
    /\ hpc = "listing"
    /\ cursor = NoKey
    /\ buf = <<>>
    /\ now = 1
    /\ wpc = "idle"
    /\ wentry = NoVal
    /\ kres = Ok
    /\ wres = NoVal
    /\ commits = 0
    /\ calls = 0
    /\ resets = TRUE

\* A call of add(item), the first or a later one.
AddAgain(item, t, rand) ==
    /\ calls < MaxAdds
    /\ AddStart(item, t, rand)

NextAdd ==
    \/ \E n \in 1..ChunkSize : ListRead(n)
    \/ HydrateRecord
    \/ HydrateDone
    \/ HydrateFail
    \/ DeliverSet
    \/ KvsSet
    \/ \E e \in Errors : KvsReject(e)
    \/ \E item \in Items, t \in 1..MaxTime, rand \in 1..MaxSuffix : AddAgain(item, t, rand)
    \/ AddReturn

SpecAdd == InitAdd /\ [][NextAdd]_vars

\* ------------------------------------------------------------ properties
EntryKeys == {heap[entries[i]].key : i \in 1..Len(entries)}

CacheKeys == {k \in Keys : cache[k] # 0}

StoreKeys == {k \in Keys : store[k] # NoVal}

IsError(r) == \E e \in Errors : r = Err(e)

Quiescent == hpc = "done" /\ notifq = <<>>

TypeOK ==
    /\ Range(entries) \subseteq DOMAIN heap
    /\ \A k \in Keys : cache[k] = 0 \/ cache[k] \in DOMAIN heap

\* C1: in every reachable state the set of keys of the elements of
\* state.entries equals the set of keys of _entry_cache.
C1_Bijection == EntryKeys = CacheKeys

\* A settled state after hydration, a delivered delete or new-key set and a
\* second delivered notification, with Deletions left in entries.
C1_Witness ==
    /\ Quiescent
    /\ commits = MaxCommits
    /\ ~resets
    /\ entries # <<>>

\* C2: for every key in _entry_cache, every element of state.entries with
\* that key is the very object the cache holds for it.
C2_Identity ==
    \A i \in 1..Len(entries) :
        cache[heap[entries[i]].key] # 0 => entries[i] = cache[heap[entries[i]].key]

\* C3: state.entries never holds two elements with the same key.
C3_NoDoubleInsert ==
    \A i, j \in 1..Len(entries) :
        heap[entries[i]].key = heap[entries[j]].key => i = j

\* C4: when the store held N records at construction and only "set"
\* notifications for those keys occurred, then once hydration has settled
\* ready is true and entries holds exactly N Deletions, one per store key.
C4_HydrationComplete ==
    (hpc = "done" /\ resets) =>
        /\ ready
        /\ Len(entries) = Cardinality(StoreKeys)
        /\ EntryKeys = StoreKeys

\* C5: when hydration has completed and every notification has been
\* delivered, the keys of state.entries are the keys of the store.
C5_MirrorsStore == Quiescent => EntryKeys = StoreKeys

\* C6: no step of add() or drop() changes state.entries or _entry_cache;
\* they change only in a delivered notification or a hydration step.
C6_OnlyNotifications ==
    [][ /\ ( \/ \E item \in Items, t \in 1..MaxTime, rand \in 1..MaxRand :
                   AddCall(item, t, rand)
             \/ \E key \in Keys : DropCall(key)
             \/ KvsSet \/ KvsDelete \/ (\E e \in Errors : KvsReject(e))
             \/ AddReturn \/ DropReturn )
           => UNCHANGED mem
        /\ (mem' # mem) => (DeliverSet \/ DeliverDelete \/ HydrateRecord) ]_vars

\* An add() has returned its entry and the entry's notification has been
\* delivered into entries.
C6_Witness ==
    /\ wpc = "idle"
    /\ "key" \in DOMAIN wres
    /\ notifq = <<>>
    /\ wres.key \in EntryKeys

\* C7: when the store's set or delete raises an error, add() / drop() throws
\* that same error, and no step of the call (the call, the rejection, the
\* throw) changes state.entries or _entry_cache or emits a notification.
C7_FailureLeavesState ==
    [][ /\ (\E e \in Errors : KvsReject(e)) => UNCHANGED mem
        /\ ((AddReturn \/ DropReturn) /\ IsError(kres))
              => (wres' = kres /\ UNCHANGED <<mem, store, notifq>>)
        /\ ( \/ \E item \in Items, t \in 1..MaxTime, rand \in 1..MaxRand :
                   AddCall(item, t, rand)
             \/ \E key \in Keys : DropCall(key) )
              => UNCHANGED <<mem, store, notifq>> ]_vars

\* A call has thrown the store's error while entries was populated.
C7_Witness ==
    /\ wpc = "idle"
    /\ IsError(wres)
    /\ entries # <<>>

\* C8: ready is false initially, turns true only in the step that ends the
\* hydration loop with the listing exhausted, and never turns false again.
C8_ReadyOnce ==
    /\ ~ready
    /\ [][ /\ ready => ready'
           /\ (~ready /\ ready') =>
                 (buf = <<>> /\ KeysAfter(store, cursor) = {} /\ hpc' = "done") ]_vars

\* Hydration has inserted two records and set ready.
C8_Witness ==
    /\ ready
    /\ Len(entries) >= 2
    /\ commits = 0

\* C9: after list() fails, hydration never resumes, ready stays false, the
\* failing step leaves the Deletions read so far in place, and pending
\* notifications can still be delivered and add/drop still called.
C9_FailedHydration ==
    /\ [](hpc = "failed" =>
            /\ ~ready
            /\ (notifq # <<>> => ENABLED (DeliverSet \/ DeliverDelete))
            /\ ((wpc = "idle" /\ calls < MaxCalls) =>
                   /\ ENABLED (\E key \in Keys : DropCall(key))
                   /\ ENABLED (\E item \in Items, rand \in 1..MaxRand :
                                  AddCall(item, now, rand))))
    /\ [][ /\ hpc = "failed" => hpc' = "failed"
           /\ HydrateFail => UNCHANGED mem ]_vars

\* The listing failed after a record was read, and a later notification
\* added a second Deletion.
C9_Witness ==
    /\ hpc = "failed"
    /\ Len(entries) >= 2
    /\ commits >= 1
    /\ notifq = <<>>

\* C10: applying a delivered "set" notification a second time leaves the
\* Deletion of each of its keys with the same fields (deleted_at and item)
\* as applying it once.
C10_IdempotentSet ==
    [][DeliverSet =>
         LET records == Head(notifq).records
             m2 == OnSet(Mem(heap', entries', cache'), records)
         IN  \A i \in 1..Len(records) :
                 m2.heap[m2.cache[records[i].key]] = heap'[cache'[records[i].key]]]_vars

\* The last record of a batch that carries key k.
LastFor(records, k) ==
    records[CHOOSE i \in 1..Len(records) :
                /\ records[i].key = k
                /\ \A j \in (i + 1)..Len(records) : records[j].key # k]

BatchKeys(records) == {records[i].key : i \in 1..Len(records)}

IsFolder(item) == "children" \in DOMAIN item

\* The Deletion objects of entries, in order, by value.
EntryObjects == [i \in 1..Len(entries) |-> heap[entries[i]]]

\* C11: whenever hydration or a "set" notification (for a new key or for a
\* key already cached) writes a folder-like item, the Deletion carries
\* friendlyFolderName of the persisted title, and the persisted children.
C11_FolderTitle ==
    [][ /\ DeliverSet =>
             \A k \in BatchKeys(Head(notifq).records) :
                 LET r == LastFor(Head(notifq).records, k)
                     d == heap'[cache'[k]]
                 IN  IsFolder(r.value.item) =>
                         /\ d.item.title = friendlyFolderName(r.value.item.title)
                         /\ d.item.children = r.value.item.children
        /\ HydrateRecord =>
             LET r == Head(buf)
                 d == heap'[cache'[r.key]]
             IN  IsFolder(r.value.item) =>
                     /\ d.item.title = friendlyFolderName(r.value.item.title)
                     /\ d.item.children = r.value.item.children ]_vars

\* The "set" notification at the head of the queue is the one a successful
\* local add() caused.
AddNotified ==
    /\ notifq # <<>>
    /\ Head(notifq).type = "set"
    /\ Len(Head(notifq).records) = 1
    /\ \/ (wpc = "add" /\ kres = Ok /\ Head(notifq).records[1] = wentry)
       \/ (wpc = "idle" /\ Head(notifq).records[1] = wres)

\* The delivery appends one Deletion for entry e and touches nothing else.
AppendsOne(e) ==
    /\ Len(entries') = Len(entries) + 1
    /\ \A i \in 1..Len(entries) :
           entries'[i] = entries[i] /\ heap'[entries[i]] = heap[entries[i]]
    /\ heap'[entries'[Len(entries')]].key = e.key
    /\ heap'[entries'[Len(entries')]].item = e.value.item
    /\ cache'[e.key] = entries'[Len(entries')]

UpdatesInPlace(e) ==
    /\ entries' = entries
    /\ cache' = cache
    /\ heap'[cache[e.key]].key = e.key
    /\ heap'[cache[e.key]].item = e.value.item
    /\ \A i \in DOMAIN heap : i # cache[e.key] => heap'[i] = heap[i]

Pos(s, x) == CHOOSE i \in 1..Len(s) : s[i] = x

\* Sequence t is s with some elements left out, the others in their order.
KeepsOrder(s, t) ==
    /\ Range(t) \subseteq Range(s)
    /\ \A i, j \in 1..Len(t) : i < j => Pos(s, t[i]) < Pos(s, t[j])

\* C14: delivering a "delete" notification for one key k that is in entries
\* removes every Deletion with key k from entries and k from the cache, and
\* leaves every other Deletion in entries and in the cache, unchanged.
C14_DropRoundTrip ==
    [][ ( /\ DeliverDelete
          /\ Len(Head(notifq).keys) = 1
          /\ Head(notifq).keys[1] \in EntryKeys )
           => LET k == Head(notifq).keys[1]
              IN  /\ k \notin EntryKeys'
                  /\ cache'[k] = 0
                  /\ \A k2 \in Keys \ {k} : cache'[k2] = cache[k2]
                  /\ KeepsOrder(entries, entries')
                  /\ \A i \in 1..Len(entries) :
                         heap[entries[i]].key # k =>
                             /\ entries[i] \in Range(entries')
                             /\ heap'[entries[i]] = heap[entries[i]] ]_vars

\* A returned drop() was the only commit; the key the listing read last was
\* hydrated and is gone from entries, another Deletion is still there.
C14_Witness ==
    /\ wpc = "idle"
    /\ wres = Ok
    /\ commits = 1
    /\ notifq = <<>>
    /\ hpc = "done"
    /\ cursor # NoKey
    /\ cursor \notin EntryKeys
    /\ entries # <<>>

\* C15: a "delete" notification that names only keys absent from entries
\* and the cache leaves the elements of entries and the cache as they were.
C15_IdempotentDelete ==
    [][ ( /\ DeliverDelete
          /\ Range(Head(notifq).keys) \cap (EntryKeys \cup CacheKeys) = {} )
           => /\ entries' = entries
              /\ cache' = cache
              /\ EntryObjects' = EntryObjects ]_vars

\* A returned drop() was the only commit and its notification is delivered,
\* yet every key is in entries: the key was absent when it was delivered.
C15_Witness ==
    /\ wpc = "idle"
    /\ wres = Ok
    /\ commits = 1
    /\ notifq = <<>>
    /\ hpc = "done"
    /\ EntryKeys = Keys

\* C16: a "set" notification whose keys are all in the cache overwrites the
\* deleted_at and item of their Deletions and nothing else: entries, the
\* cache, the objects' identity and key and all other objects are unchanged.
C16_UpdateInPlace ==
    [][ ( /\ DeliverSet
          /\ \A k \in BatchKeys(Head(notifq).records) : cache[k] # 0 )
           => LET records == Head(notifq).records
                  touched == {cache[k] : k \in BatchKeys(records)}
              IN  /\ entries' = entries
                  /\ cache' = cache
                  /\ DOMAIN heap' = DOMAIN heap
                  /\ \A i \in DOMAIN heap :
                         /\ heap'[i].key = heap[i].key
                         /\ i \notin touched => heap'[i] = heap[i]
                  /\ \A k \in BatchKeys(records) :
                         /\ heap'[cache[k]].deleted_at =
                                NewDate(LastFor(records, k).value.deleted_at)
                         /\ heap'[cache[k]].item = LastFor(records, k).value.item ]_vars

\* One commit set a key the store held, hydration is done, the notification
\* is delivered and entries has one Deletion per key: it was updated in place.
C16_Witness ==
    /\ Quiescent
    /\ commits = 1
    /\ resets
    /\ entries # <<>>
    /\ Len(entries) = Cardinality(EntryKeys)
    /\ \E i \in 1..Len(entries) :
           heap[entries[i]].deleted_at # NewDate(store[heap[entries[i]].key].deleted_at)
           \/ heap[entries[i]].item = store[heap[entries[i]].key].item

\* Number of elements of entries es (objects in h) with key k.
CountKey(h, es, k) == Cardinality({i \in 1..Len(es) : h[es[i]].key = k})

\* C17: a "set" batch is applied in array order with last-write-wins: a key
\* absent before gets exactly one new element at the end of entries, however
\* often the batch names it; its deleted_at is that of the key's last
\* record, and so is its item when the key was named more than once.
C17_LastWriteWins ==
    [][ DeliverSet =>
          LET records == Head(notifq).records
          IN  \A k \in BatchKeys(records) :
                  LET last == LastFor(records, k)
                      times == Cardinality({i \in 1..Len(records) : records[i].key = k})
                      d == heap'[cache'[k]]
                  IN  /\ d.deleted_at = NewDate(last.value.deleted_at)
                      /\ (times > 1 \/ cache[k] # 0) => d.item = last.value.item
                      /\ cache[k] = 0 =>
                             /\ CountKey(heap', entries', k) = CountKey(heap, entries, k) + 1
                             /\ cache'[k] \notin Range(entries)
                             /\ Pos(entries', cache'[k]) > Len(entries)
                      /\ cache[k] # 0 =>
                             /\ CountKey(heap', entries', k) = CountKey(heap, entries, k)
                             /\ cache'[k] = cache[k] ]_vars

\* The listing found the store empty, so the one Deletion comes from the one
\* committed batch; it carries a folder item as persisted, which only a
\* second record for its key writes.
C17_Witness ==
    /\ hpc = "done"
    /\ cursor = NoKey
    /\ commits = 1
    /\ notifq = <<>>
    /\ Len(entries) = 1
    /\ IsFolder(heap[entries[1]].item)
    /\ heap[entries[1]].item.title = "saved-1"

\* C19: once hydration has settled and every notification is delivered, the
\* Deletion the cache holds for a key of the store, and every element of
\* entries with that key, carries the fields of the store's current value.
C19_NewestWins ==
    Quiescent =>
        \A i \in 1..Len(entries) :
            LET d == heap[entries[i]]
            IN  d.key \in StoreKeys =>
                    /\ d.deleted_at = NewDate(store[d.key].deleted_at)
                    /\ d.item \in {store[d.key].item,
                                   src2state(Entry(d.key, store[d.key])).item}

\* C20: entries is stable: a step that is not a "delete" delivery keeps
\* every element in place and only appends new objects at the end; a
\* "delete" delivery only leaves elements out and keeps the others' order.
C20_StableOrder ==
    [][ /\ Len(entries') < Len(entries) => DeliverDelete
        /\ DeliverDelete => KeepsOrder(entries, entries')
        /\ ~DeliverDelete =>
              /\ Len(entries') >= Len(entries)
              /\ \A i \in 1..Len(entries) : entries'[i] = entries[i]
              /\ \A i \in (Len(entries) + 1)..Len(entries') :
                     entries'[i] \notin Range(entries) ]_vars

\* Hydration inserted, notifications appended and a "delete" delivery
\* shortened entries, and two Deletions are left.
C20_Witness ==
    /\ Quiescent
    /\ commits = MaxCommits
    /\ \E i \in 1..Len(entries) : heap[entries[i]].key \notin StoreKeys
    /\ Len(entries) >= 2

\* C12: the key add() generates is lexicographically strictly greater than
\* the key the previous add() of the process generated and returned, also
\* when both calls read the same millisecond.
C12_KeysIncrease ==
    [][ \A item \in Items, t \in 1..MaxTime, rand \in 1..MaxSuffix :
            (AddAgain(item, t, rand) /\ "value" \in DOMAIN wres)
                => KeyLess(wres.key, wentry'.key) ]_vars

\* C18: under fair scheduling ready is false for as long as the listing has
\* not completed, and it eventually becomes true unless the listing fails,
\* whatever notifications and add/drop calls interleave with hydration.
C18_EventuallyReady ==
    /\ [](hpc # "done" => ~ready)
    /\ <>(ready \/ hpc = "failed")

\* Hydration became ready after the store committed writes and the caller
\* made a call while the listing was still being read.
C18_Witness ==
    /\ ready
    /\ commits = MaxCommits
    /\ calls = MaxCalls
    /\ Len(entries) > Cardinality(EntryKeys)

====
